---------------------------- MODULE Spec2Model ----------------------------
(***************************************************************************)
(* Airline customer support: the React chat client (CustomerSupport.jsx),  *)
(* the admin request-type editor (App.jsx, AdminPanel) and the             *)
(* orchestration backend the two talk to through services/api.js.          *)
(*                                                                         *)
(* The backend's code is not among the sources; its session controller and *)
(* task executor are modelled from sections 3-7 of the specification.      *)
(*                                                                         *)
(* A text is a sequence of tokens; the token " " is white space.           *)
(***************************************************************************)
EXTENDS Naturals, Sequences, FiniteSets, TLC

VARIABLES
    \* ---- CustomerSupport component state (useState hooks)
    messages,      \* list of {sender, text, isError}
    inputValue,    \* content of the text field
    sessionId,     \* Null or the adopted session id
    isLoading,
    needsInput,
    \* ---- browser / transport
    timers,        \* pending setTimeout callbacks of handleQuickAction, oldest
                   \* first, each with the query of the click that armed it
    inflight,      \* requests issued and not yet settled, with their closures
    requests,      \* log of every request issued through customerAPI
    \* ---- backend (session state store)
    sessions,      \* session id -> Session
    nextSid,       \* next session id the store hands out
    \* ---- AdminPanel component state (useState hooks)
    activeTab,
    requestTypes,  \* loaded request types, each with its task objects
    policies,
    loading,
    showModal,
    editingRequestType,   \* <<>> for null, else <<request type>>
    \* ---- pending admin calls
    loads,         \* loadData calls awaiting their response
    saves          \* handleSaveRequestType calls awaiting their response

chatVars == <<messages, inputValue, sessionId, isLoading, needsInput,
              timers, inflight, requests>>
backendVars == <<sessions, nextSid>>
adminVars == <<activeTab, requestTypes, policies, loading, showModal,
               editingRequestType, loads, saves>>
vars == <<chatVars, backendVars, adminVars>>

-----------------------------------------------------------------------------
(* Bounds *)

MaxReqs == 2        \* requests the chat client may issue in one run
MaxSessions == 2    \* session ids the store may hand out
MaxTimers == 1      \* quick-action timeouts that may be pending at once

-----------------------------------------------------------------------------
(* Texts *)

Null == 0

Blank == " "

\* What the user may type into the field.
Typed == { <<Blank>>, <<"cancel">>, <<"cancel", Blank, "ABC123">>, <<"ABC123">>,
           <<"yes", Blank>>, <<"hello">> }

\* The queries of the quick-action buttons.
quickActions == { <<"cancel">>, <<"pet">> }

RECURSIVE TrimStart(_)
TrimStart(t) ==
    IF t # <<>> /\ Head(t) = Blank THEN TrimStart(Tail(t)) ELSE t

RECURSIVE TrimEnd(_)
TrimEnd(t) ==
    IF t # <<>> /\ t[Len(t)] = Blank THEN TrimEnd(SubSeq(t, 1, Len(t) - 1)) ELSE t

\* String.prototype.trim
Trim(t) == TrimEnd(TrimStart(t))

\* JavaScript truthiness of a string / of a session id
Truthy(t) == t # <<>>
HasSession(sid) == sid # Null

Contains(t, tok) == \E i \in 1..Len(t) : t[i] = tok

Max(S) == CHOOSE x \in S : \A y \in S : y <= x
Min(S) == CHOOSE x \in S : \A y \in S : x <= y

IsPrefix(a, b) == Len(a) <= Len(b) /\ SubSeq(b, 1, Len(a)) = a

\* A mapping with no keys.
EmptyMap == [k \in {} |-> <<>>]

-----------------------------------------------------------------------------
(* Backend: request-type catalog, intent resolution, task executor          *)

Task(name, type, order, field) ==
    [task_name |-> name, task_type |-> type, execution_order |-> order, field |-> field]

CancelTrip ==
    << Task("ask_pnr", "customer_input", 1, "pnr"),
       Task("get_booking", "api_call", 2, "booking"),
       Task("ask_confirm", "customer_input", 3, "confirm"),
       Task("cancel", "api_call", 4, "cancellation"),
       Task("respond", "response", 5, "none") >>

PolicyInfo ==
    << Task("lookup", "policy_lookup", 1, "policy"),
       Task("respond", "response", 2, "none") >>

Greeting ==
    << Task("respond", "response", 1, "none") >>

NoType == "none"

Catalog == [CancelTrip |-> CancelTrip, PolicyInfo |-> PolicyInfo, Greeting |-> Greeting]

TasksOf(rt) == IF rt = NoType THEN <<>> ELSE Catalog[rt]

\* Intent resolution with the keyword fallback of section 4.3.
Resolve(text) ==
    IF Contains(text, "cancel") THEN "CancelTrip"
    ELSE IF Contains(text, "pet") THEN "PolicyInfo"
    ELSE IF Contains(text, "hello") THEN "Greeting"
    ELSE NoType

\* Entities the resolver extracts from the utterance (a PNR).
Entities(text) ==
    IF Contains(text, "ABC123") THEN ("pnr" :> <<"ABC123">>) ELSE EmptyMap

NewSession ==
    [request_type |-> NoType, current_task_index |-> 0, collected_inputs |-> EmptyMap,
     status |-> "active", executed |-> <<>>, workflow |-> 0]

Outcome(s, text, ni, it) ==
    [session |-> s, response |-> text, needs_input |-> ni, input_type |-> it]

Advance_SkipsNext(s, t) ==
    [s EXCEPT !.current_task_index = @ + 2,
              !.executed = Append(@, t.execution_order)]

\* A task that completes: recorded, and the pointer moves to the next one.
Advance(s, t) ==
    [s EXCEPT !.current_task_index = @ + 1,
              !.executed = Append(@, t.execution_order)]

\* Execution loop of section 4.4, from the session's current task pointer.
RECURSIVE Execute(_, _, _)
Execute(s, upstreamOk, policyFound) ==
    LET tasks == TasksOf(s.request_type)
        i == s.current_task_index
    IN  IF i >= Len(tasks)
        THEN Outcome([s EXCEPT !.status = "completed"], "final", FALSE, "none")
        ELSE LET t == tasks[i + 1] IN
            CASE t.task_type = "customer_input" ->
                    IF t.field \in DOMAIN s.collected_inputs
                    THEN Execute(Advance(s, t), upstreamOk, policyFound)
                    ELSE Outcome([s EXCEPT !.status = "awaiting_input"],
                                 "prompt", TRUE, t.field)
              [] t.task_type = "api_call" ->
                    IF upstreamOk
                    THEN Execute(Advance([s EXCEPT !.collected_inputs =
                                              (t.field :> <<"ok">>) @@ @], t),
                                 upstreamOk, policyFound)
                    ELSE Outcome(s, "apology", FALSE, "none")
              [] t.task_type = "policy_lookup" ->
                    Execute(Advance([s EXCEPT !.collected_inputs =
                                         (t.field :> IF policyFound THEN <<"text">>
                                                     ELSE <<"sorry">>) @@ @], t),
                            upstreamOk, policyFound)
              [] OTHER ->
                    Outcome([Advance(s, t) EXCEPT !.status = "completed"],
                            "final", FALSE, "none")

\* The field a suspended session is waiting for.
PendingField(s) == TasksOf(s.request_type)[s.current_task_index + 1].field

\* Section 4.5: one inbound message for session s.
Orchestrate(s, text, upstreamOk, policyFound) ==
    IF s.status = "awaiting_input"
    THEN Execute([s EXCEPT !.collected_inputs = (PendingField(s) :> text) @@ @,
                           !.status = "active"],
                 upstreamOk, policyFound)
    ELSE LET rt == Resolve(text) IN
         IF rt = NoType
         THEN Outcome([s EXCEPT !.request_type = NoType, !.current_task_index = 0,
                                !.executed = <<>>, !.status = "active",
                                !.workflow = @ + 1],
                      "clarify", FALSE, "none")
         ELSE Execute([s EXCEPT !.request_type = rt, !.current_task_index = 0,
                                !.executed = <<>>, !.status = "active",
                                !.workflow = @ + 1,
                                !.collected_inputs = Entities(text) @@ @],
                      upstreamOk, policyFound)

-----------------------------------------------------------------------------
(* Backend: the two endpoints of the customer API                           *)

NoReply ==
    [ok |-> FALSE, session_id |-> Null, response |-> "none", needs_input |-> FALSE]

ErrorReply ==
    [ok |-> FALSE, session_id |-> Null, response |-> "SessionNotFound",
     needs_input |-> FALSE]

OkReply(sid, out) ==
    [ok |-> TRUE, session_id |-> sid, response |-> out.response,
     needs_input |-> out.needs_input]

\* submitQuery answers with the session id, submitInput without one.
ReplySid(r) == IF r.op = "sendQuery" THEN r.session_id ELSE Null

\* POST /customer/query and POST /customer/input, for the i-th request in flight.
BackendHandle(i, upstreamOk, policyFound) ==
    /\ i \in 1..Len(inflight)
    /\ inflight[i].stage = "sent"
    /\ LET r == inflight[i] IN
       IF r.session_id = Null /\ r.op = "sendQuery"
       THEN /\ nextSid <= MaxSessions
            /\ LET out == Orchestrate(NewSession, r.text, upstreamOk, policyFound) IN
               /\ sessions' = (nextSid :> out.session) @@ sessions
               /\ nextSid' = nextSid + 1
               /\ inflight' = [inflight EXCEPT ![i].stage = "replied",
                                               ![i].reply = OkReply(nextSid, out)]
       ELSE IF r.session_id \notin DOMAIN sessions
       THEN /\ inflight' = [inflight EXCEPT ![i].stage = "replied",
                                            ![i].reply = ErrorReply]
            /\ UNCHANGED backendVars
       ELSE LET out == Orchestrate(sessions[r.session_id], r.text,
                                   upstreamOk, policyFound) IN
            /\ sessions' = [sessions EXCEPT ![r.session_id] = out.session]
            /\ inflight' = [inflight EXCEPT ![i].stage = "replied",
                                            ![i].reply = OkReply(ReplySid(r), out)]
            /\ UNCHANGED nextSid
    /\ UNCHANGED <<messages, inputValue, sessionId, isLoading, needsInput,
                   timers, requests, adminVars>>

\* The store evicts an idle session (section 5).
Evict(sid) ==
    /\ sid \in DOMAIN sessions
    /\ sessions' = [x \in DOMAIN sessions \ {sid} |-> sessions[x]]
    /\ UNCHANGED <<chatVars, nextSid, adminVars>>

-----------------------------------------------------------------------------
(* Chat client: CustomerSupport.jsx                                         *)

Greet == [sender |-> "system", text |-> <<"greeting">>, isError |-> FALSE]

UserMessage(text) == [sender |-> "user", text |-> text, isError |-> FALSE]

SystemMessage(text) == [sender |-> "system", text |-> <<text>>, isError |-> FALSE]

ErrorMessage == [sender |-> "system", text |-> <<"sorry">>, isError |-> TRUE]

SendOp_IgnoresNeedsInput(sid, ni) ==
    IF HasSession(sid) THEN "sendInput" ELSE "sendQuery"

\* if (sessionId && needsInput) sendInput else sendQuery
SendOp(sid, ni) ==
    IF HasSession(sid) /\ ni THEN "sendInput" ELSE "sendQuery"

\* if (!inputValue.trim() || isLoading) return;
Rejected == ~Truthy(Trim(inputValue)) \/ isLoading

\* disabled={!inputValue.trim() || isLoading} of the send button
SendDisabled == ~Truthy(Trim(inputValue)) \/ isLoading

StartLoading_Forgotten == FALSE

\* setIsLoading(true)
StartLoading == TRUE

AppendMessage_Prepends(prev, m) == <<m>> \o prev

\* setMessages(prev => [...prev, m])
AppendMessage(prev, m) == Append(prev, m)

RequestText_Trimmed(t) == Trim(t)

\* The text handed to customerAPI: inputValue itself.
RequestText(t) == t

\* The synchronous part of handleSendMessage, up to the await.
HandleSendMessage ==
    IF Rejected
    THEN UNCHANGED <<messages, inputValue, isLoading, inflight, requests>>
    ELSE /\ messages' = AppendMessage(messages, UserMessage(inputValue))
         /\ inputValue' = <<>>
         /\ isLoading' = StartLoading
         /\ inflight' = Append(inflight,
                [n |-> Len(requests) + 1,
                 op |-> SendOp(sessionId, needsInput),
                 session_id |-> sessionId,
                 text |-> RequestText(inputValue),
                 closure |-> [sessionId |-> sessionId],
                 stage |-> "sent",
                 reply |-> NoReply])
         /\ requests' = Append(requests,
                [op |-> SendOp(sessionId, needsInput),
                 session_id |-> sessionId,
                 text |-> RequestText(inputValue),
                 held |-> sessionId,
                 outcome |-> "pending",
                 needs_input |-> FALSE,
                 reply_sid |-> Null,
                 response |-> "none"])

\* handleSendMessage issues a request only while the run has room for one.
Room(n) == Rejected \/ Len(requests) < n

\* onChange of the text field (disabled while loading)
TypeText(t) ==
    /\ ~isLoading
    /\ inputValue' = t
    /\ UNCHANGED <<messages, sessionId, isLoading, needsInput, timers, inflight,
                   requests, backendVars, adminVars>>

\* The user submits the form with the send button.
SubmitForm(n) ==
    /\ ~SendDisabled
    /\ Room(n)
    /\ HandleSendMessage
    /\ UNCHANGED <<sessionId, needsInput, timers, backendVars, adminVars>>

\* handleQuickAction(query): fill the field and arm the 100 ms timeout.
HandleQuickAction(q) ==
    /\ ~isLoading
    /\ Len(timers) < MaxTimers
    /\ inputValue' = q
    /\ timers' = Append(timers, [query |-> q])
    /\ UNCHANGED <<messages, sessionId, isLoading, needsInput, inflight,
                   requests, backendVars, adminVars>>

\* The timeout fires: document.getElementById('message-form').requestSubmit()
TimerFires(n) ==
    /\ timers # <<>>
    /\ timers' = Tail(timers)
    /\ Room(n)
    /\ HandleSendMessage
    /\ UNCHANGED <<sessionId, needsInput, backendVars, adminVars>>

Remove(seq, i) == SubSeq(seq, 1, i - 1) \o SubSeq(seq, i + 1, Len(seq))

AdoptSession_Always(closureSid, cur, replySid) == replySid

\* if (!sessionId) setSessionId(response.session_id), with the closure's sessionId
AdoptSession(closureSid, cur, replySid) ==
    IF ~HasSession(closureSid) THEN replySid ELSE cur

NextNeedsInput_Sticky(cur, reply) == cur \/ reply.needs_input

\* setNeedsInput(response.needs_input || false)
NextNeedsInput(cur, reply) == reply.needs_input

\* The continuation of handleSendMessage after a fulfilled await.
ClientThen(i) ==
    /\ i \in 1..Len(inflight)
    /\ inflight[i].stage = "replied"
    /\ inflight[i].reply.ok
    /\ LET r == inflight[i] IN
       /\ sessionId' = AdoptSession(r.closure.sessionId, sessionId, r.reply.session_id)
       /\ messages' = AppendMessage(messages, SystemMessage(r.reply.response))
       /\ needsInput' = NextNeedsInput(needsInput, r.reply)
       /\ isLoading' = FALSE
       /\ requests' = [requests EXCEPT ![r.n].outcome = "ok",
                                       ![r.n].needs_input = r.reply.needs_input,
                                       ![r.n].reply_sid = r.reply.session_id,
                                       ![r.n].response = r.reply.response]
    /\ inflight' = Remove(inflight, i)
    /\ UNCHANGED <<inputValue, timers, backendVars, adminVars>>

AfterError_LeavesInputMode(sid, ni) == <<sid, FALSE>>

\* Session id and input mode after a rejected await.
AfterError(sid, ni) == <<sid, ni>>

\* What rejected the await: the error status the backend answered with, or the
\* network.
Cause(r) ==
    IF r.stage = "replied" /\ ~r.reply.ok THEN r.reply.response ELSE "network"

\* The catch and finally blocks: the request was rejected (an error status
\* from the backend, or the network failed before or after the backend ran).
ClientCatch(i) ==
    /\ i \in 1..Len(inflight)
    /\ LET r == inflight[i] IN
       /\ messages' = AppendMessage(messages, ErrorMessage)
       /\ sessionId' = AfterError(sessionId, needsInput)[1]
       /\ needsInput' = AfterError(sessionId, needsInput)[2]
       /\ isLoading' = FALSE
       /\ requests' = [requests EXCEPT ![r.n].outcome = "error",
                                       ![r.n].response = Cause(r)]
    /\ inflight' = Remove(inflight, i)
    /\ UNCHANGED <<inputValue, timers, backendVars, adminVars>>

-----------------------------------------------------------------------------
(* Specification of the chat client against the backend                     *)

InitChat ==
    /\ messages = <<Greet>>
    /\ inputValue = <<>>
    /\ sessionId = Null
    /\ isLoading = FALSE
    /\ needsInput = FALSE
    /\ timers = <<>>
    /\ inflight = <<>>
    /\ requests = <<>>
    /\ sessions = [k \in {} |-> NewSession]
    /\ nextSid = 1

\* AdminPanel after its first render and the effect that runs loadData.
InitAdmin ==
    /\ activeTab = "request-types"
    /\ requestTypes = <<>>
    /\ policies = <<>>
    /\ loading = TRUE
    /\ showModal = FALSE
    /\ editingRequestType = <<>>
    /\ loads = <<[tab |-> "request-types"]>>
    /\ saves = <<>>

Init == InitChat /\ InitAdmin

Next ==
    \/ \E t \in Typed : TypeText(t)
    \/ SubmitForm(MaxReqs)
    \/ \E q \in quickActions : HandleQuickAction(q)
    \/ TimerFires(MaxReqs)
    \/ \E i \in 1..MaxReqs, u \in BOOLEAN, p \in BOOLEAN : BackendHandle(i, u, p)
    \/ \E i \in 1..MaxReqs : ClientThen(i)
    \/ \E i \in 1..MaxReqs : ClientCatch(i)
    \/ \E sid \in 1..MaxSessions : Evict(sid)

Spec == Init /\ [][Next]_vars

-----------------------------------------------------------------------------
(* The Cancel Trip conversation: the user's messages are those of the        *)
(* scenario, every collaborator call succeeds and no request is lost.        *)

MaxTurns == 4       \* requests of one scenario run

ScenarioTexts == { <<"cancel">>, <<"ABC123">>, <<"yes">> }

NextCancelTrip ==
    \/ \E t \in ScenarioTexts : TypeText(t)
    \/ SubmitForm(MaxTurns)
    \/ HandleQuickAction(<<"cancel">>)
    \/ TimerFires(MaxTurns)
    \/ \E i \in 1..MaxTurns : BackendHandle(i, TRUE, TRUE)
    \/ \E i \in 1..MaxTurns : ClientThen(i)

SpecCancelTrip == Init /\ [][NextCancelTrip]_vars

-----------------------------------------------------------------------------
(* Session expiry: the user greets or asks to cancel, the store may evict   *)
(* the session between two messages, and every collaborator call succeeds.  *)

ExpiryTexts == { <<"hello">>, <<"cancel">> }

NextExpiry ==
    \/ \E t \in ExpiryTexts : TypeText(t)
    \/ SubmitForm(MaxTurns)
    \/ \E i \in 1..MaxTurns : BackendHandle(i, TRUE, TRUE)
    \/ \E i \in 1..MaxTurns : ClientThen(i)
    \/ \E i \in 1..MaxTurns : ClientCatch(i)
    \/ \E sid \in 1..MaxSessions : Evict(sid)

SpecExpiry == Init /\ [][NextExpiry]_vars

-----------------------------------------------------------------------------
(* Admin panel: AdminPanel in App.jsx                                       *)
(*                                                                         *)
(* The loaded list owns its task objects.  A task of the edited request     *)
(* type is either an object of its own (created by the editor, or left     *)
(* over from a list that has since been replaced) or the very object at    *)
(* position i of request type k of the list, so that what removeTask       *)
(* writes into a shared object shows in the list.                          *)

MaxTasks == 2       \* tasks one request type may hold in the editor
MaxLoads == 2       \* loadData calls that may be pending at once
MaxSaves == 1       \* save calls that may be pending at once

Tabs == {"request-types", "policies"}

\* The task literal of handleCreateRequestType and addTask.
NewTask(order) ==
    [task_name |-> "", task_type |-> "customer_input", execution_order |-> order]

\* What the editor's inputs may set: updateTask(index, field, value).
FieldValues == { <<"task_name", "name">>, <<"task_type", "response">> }

\* What GET /admin/request-types may answer: for each request type listed, the
\* number of its tasks (stored definitions, tasks in execution order).
ServerLists == { <<>>, <<2>>, <<1, 2>> }

\* A task object of the editor's own.
Own(task) == [k |-> 0, i |-> 0, value |-> task]

\* The task object at position i of request type k of the loaded list.
Shared(k, i) == [k |-> k, i |-> i, value |-> NewTask(0)]

\* The object a task cell of the editor stands for.
Deref(rts, cell) == IF cell.k = 0 THEN cell.value ELSE rts[cell.k].tasks[cell.i]

\* The task objects of the edited request type, by value.
Values(rts, tasks) == [j \in 1..Len(tasks) |-> Deref(rts, tasks[j])]

ModalShown == showModal /\ editingRequestType # <<>>

\* loadData(): setLoading(true), then the request for the closure's activeTab.
LoadData(tab) ==
    /\ Len(loads) < MaxLoads
    /\ loading' = TRUE
    /\ loads' = Append(loads, [tab |-> tab])

handleCreateRequestType ==
    /\ ~ModalShown
    /\ activeTab = "request-types"
    /\ editingRequestType' = <<[id |-> Null, tasks |-> <<Own(NewTask(1))>>]>>
    /\ showModal' = TRUE
    /\ UNCHANGED <<activeTab, requestTypes, policies, loading, loads, saves,
                   chatVars, backendVars>>

\* setEditingRequestType(requestType): the very object of the list.
handleEditRequestType(k) ==
    /\ ~ModalShown
    /\ activeTab = "request-types"
    /\ ~loading
    /\ k \in 1..Len(requestTypes)
    /\ editingRequestType' =
            <<[id |-> requestTypes[k].id,
               tasks |-> [i \in 1..Len(requestTypes[k].tasks) |-> Shared(k, i)]]>>
    /\ showModal' = TRUE
    /\ UNCHANGED <<activeTab, requestTypes, policies, loading, loads, saves,
                   chatVars, backendVars>>

\* Cancel, the close button, or a click on the overlay: setShowModal(false).
CloseModal ==
    /\ ModalShown
    /\ showModal' = FALSE
    /\ UNCHANGED <<activeTab, requestTypes, policies, loading, editingRequestType,
                   loads, saves, chatVars, backendVars>>

\* execution_order: editingRequestType.tasks.length + 1
AddedOrder(tasks) == Len(tasks) + 1

addTask ==
    /\ ModalShown
    /\ LET e == editingRequestType[1] IN
       /\ Len(e.tasks) < MaxTasks
       /\ editingRequestType' =
            <<[e EXCEPT !.tasks = Append(@, Own(NewTask(AddedOrder(e.tasks))))]>>
    /\ UNCHANGED <<activeTab, requestTypes, policies, loading, showModal, loads,
                   saves, chatVars, backendVars>>

\* removeTask without the forEach that renumbers the remaining tasks
Reorder_Skipped(task, j) == task

\* task.execution_order = i + 1, written into the object at position j
Reorder(task, j) == [task EXCEPT !.execution_order = j]

\* newTasks.forEach(...) as it shows in the editor's own objects
ReorderOwn(newTasks) ==
    [j \in 1..Len(newTasks) |->
        IF newTasks[j].k = 0
        THEN Own(Reorder(newTasks[j].value, j))
        ELSE newTasks[j]]

\* newTasks.forEach(...) as it shows in the objects shared with the list
ReorderShared(rts, newTasks) ==
    [k \in 1..Len(rts) |->
        [rts[k] EXCEPT !.tasks =
            [i \in 1..Len(rts[k].tasks) |->
                LET at == { j \in 1..Len(newTasks) :
                                newTasks[j].k = k /\ newTasks[j].i = i }
                IN  IF at = {} THEN rts[k].tasks[i]
                    ELSE Reorder(rts[k].tasks[i], CHOOSE j \in at : TRUE)]]]

removeTask(index) ==
    /\ ModalShown
    /\ LET e == editingRequestType[1] IN
       /\ index \in 1..Len(e.tasks)
       /\ LET newTasks == Remove(e.tasks, index) IN
          /\ editingRequestType' = <<[e EXCEPT !.tasks = ReorderOwn(newTasks)]>>
          /\ requestTypes' = ReorderShared(requestTypes, newTasks)
    /\ UNCHANGED <<activeTab, policies, loading, showModal, loads, saves,
                   chatVars, backendVars>>

\* { ...newTasks[index], [field]: value }
SetField(task, field, value) == [task EXCEPT ![field] = value]

updateTask(index, field, value) ==
    /\ ModalShown
    /\ LET e == editingRequestType[1] IN
       /\ index \in 1..Len(e.tasks)
       /\ Deref(requestTypes, e.tasks[index])[field] # value
       /\ editingRequestType' =
            <<[e EXCEPT !.tasks[index] =
                    Own(SetField(Deref(requestTypes, e.tasks[index]), field, value))]>>
    /\ UNCHANGED <<activeTab, requestTypes, policies, loading, showModal, loads,
                   saves, chatVars, backendVars>>

SaveOp_AlwaysCreate(e) == "createRequestType"

\* editingRequestType.id ? updateRequestType(id, data) : createRequestType(data)
SaveOp(e) == IF e.id # Null THEN "updateRequestType" ELSE "createRequestType"

\* The request body: the edited request type as it is serialised.
SaveData(rts, e) == [id |-> e.id, tasks |-> Values(rts, e.tasks)]

\* The synchronous part of handleSaveRequestType: the request is issued.
handleSaveRequestType ==
    /\ ModalShown
    /\ Len(saves) < MaxSaves
    /\ LET e == editingRequestType[1] IN
       saves' = Append(saves, [op |-> SaveOp(e), id |-> e.id,
                               closure |-> [activeTab |-> activeTab]])
    /\ UNCHANGED <<activeTab, requestTypes, policies, loading, showModal,
                   editingRequestType, loads, chatVars, backendVars>>

\* The save succeeded: close, forget the edit, reload.
SaveThen(i) ==
    /\ i \in 1..Len(saves)
    /\ showModal' = FALSE
    /\ editingRequestType' = <<>>
    /\ LoadData(saves[i].closure.activeTab)
    /\ saves' = Remove(saves, i)
    /\ UNCHANGED <<activeTab, requestTypes, policies, chatVars, backendVars>>

\* The save failed: alert('Error saving request type').
SaveCatch(i) ==
    /\ i \in 1..Len(saves)
    /\ saves' = Remove(saves, i)
    /\ UNCHANGED <<activeTab, requestTypes, policies, loading, showModal,
                   editingRequestType, loads, chatVars, backendVars>>

\* A tab button: setActiveTab, and the effect on [activeTab] runs loadData.
SetActiveTab(tab) ==
    /\ ~ModalShown
    /\ tab # activeTab
    /\ activeTab' = tab
    /\ LoadData(tab)
    /\ UNCHANGED <<requestTypes, policies, showModal, editingRequestType,
                   saves, chatVars, backendVars>>

\* The parsed response: new objects for every request type and task.
Parsed(sizes) ==
    [k \in 1..Len(sizes) |->
        [id |-> k, tasks |-> [i \in 1..sizes[k] |-> NewTask(i)]]]

\* The edited request type once the list it was taken from is replaced: the
\* objects it shared with the old list are its own from now on.
Detached(rts, ed) ==
    [n \in 1..Len(ed) |->
        [ed[n] EXCEPT !.tasks = [j \in 1..Len(@) |-> Own(Deref(rts, @[j]))]]]

\* setRequestTypes(data) or setPolicies(data), then setLoading(false)
LoadThen(i, sizes) ==
    /\ i \in 1..Len(loads)
    /\ IF loads[i].tab = "request-types"
       THEN /\ requestTypes' = Parsed(sizes)
            /\ editingRequestType' = Detached(requestTypes, editingRequestType)
            /\ UNCHANGED policies
       ELSE /\ policies' = [k \in 1..Len(sizes) |-> k]
            /\ UNCHANGED <<requestTypes, editingRequestType>>
    /\ loading' = FALSE
    /\ loads' = Remove(loads, i)
    /\ UNCHANGED <<activeTab, showModal, saves, chatVars, backendVars>>

\* The load failed: only the finally block runs.
LoadCatch(i) ==
    /\ i \in 1..Len(loads)
    /\ loading' = FALSE
    /\ loads' = Remove(loads, i)
    /\ UNCHANGED <<activeTab, requestTypes, policies, showModal,
                   editingRequestType, saves, chatVars, backendVars>>

\* The request-type editor; the user stays on the request-types tab.
NextAdmin ==
    \/ handleCreateRequestType
    \/ \E k \in 1..Len(requestTypes) : handleEditRequestType(k)
    \/ CloseModal
    \/ addTask
    \/ \E index \in 1..MaxTasks : removeTask(index)
    \/ \E index \in 1..MaxTasks, fv \in FieldValues : updateTask(index, fv[1], fv[2])
    \/ handleSaveRequestType
    \/ \E i \in 1..MaxSaves : SaveThen(i)
    \/ \E i \in 1..MaxSaves : SaveCatch(i)
    \/ \E i \in 1..MaxLoads, sizes \in ServerLists : LoadThen(i, sizes)
    \/ \E i \in 1..MaxLoads : LoadCatch(i)

SpecAdmin == Init /\ [][NextAdmin]_vars

\* Editing listed request types and closing the editor, never saving.
NextEditor ==
    \/ \E k \in 1..Len(requestTypes) : handleEditRequestType(k)
    \/ CloseModal
    \/ addTask
    \/ \E index \in 1..MaxTasks : removeTask(index)
    \/ \E index \in 1..MaxTasks, fv \in FieldValues : updateTask(index, fv[1], fv[2])
    \/ \E i \in 1..MaxLoads, sizes \in ServerLists : LoadThen(i, sizes)
    \/ \E i \in 1..MaxLoads : LoadCatch(i)

SpecEditor == Init /\ [][NextEditor]_vars

\* Switching tabs while loads are pending; a saved request type reloads too.
NextTabs ==
    \/ \E tab \in Tabs : SetActiveTab(tab)
    \/ handleCreateRequestType
    \/ handleSaveRequestType
    \/ \E i \in 1..MaxSaves : SaveThen(i)
    \/ \E i \in 1..MaxLoads, sizes \in ServerLists : LoadThen(i, sizes)
    \/ \E i \in 1..MaxLoads : LoadCatch(i)

SpecTabs == Init /\ [][NextTabs]_vars

-----------------------------------------------------------------------------
(* Properties of the request-type editor                                    *)

Orders(rts, tasks) ==
    [j \in 1..Len(tasks) |-> Deref(rts, tasks[j]).execution_order]

\* C4: a request type started with handleCreateRequestType keeps, through
\* addTask, removeTask and updateTask, execution_order = position for every
\* task (the contiguous sequence 1..N).
C4_ContiguousOrder ==
    \A n \in 1..Len(editingRequestType) :
        LET e == editingRequestType[n] IN
        e.id = Null =>
            Orders(requestTypes, e.tasks) = [j \in 1..Len(e.tasks) |-> j]

\* a created request type after addTask and updateTask of both fields, with a
\* list loaded beside it
C4_Witness ==
    /\ ModalShown
    /\ editingRequestType[1].id = Null
    /\ Len(editingRequestType[1].tasks) = 2
    /\ Deref(requestTypes, editingRequestType[1].tasks[1]).task_type = "response"
    /\ Deref(requestTypes, editingRequestType[1].tasks[2]).task_name = "name"
    /\ requestTypes # <<>>

SaveIssued == Len(saves') = Len(saves) + 1

\* C5: every request type handleSaveRequestType submits has a non-empty tasks
\* list.
C5_NonEmptySubmission ==
    [][SaveIssued =>
        SaveData(requestTypes, editingRequestType[1]).tasks # <<>>]_vars

\* The lists the server may answer with, as they are right after a load.
Loaded == { Parsed(sizes) : sizes \in ServerLists }

ClosedUnsaved == ModalShown /\ showModal' = FALSE /\ saves = <<>>

\* C13: closing the editor without saving, after handleEditRequestType and any
\* addTask / removeTask / updateTask, leaves every entry of the loaded list as
\* it was loaded, the execution_order of each of its tasks included.
C13_ListUnchanged ==
    [][ClosedUnsaved => requestTypes' \in Loaded]_vars

\* The i-th pending load settles.
LoadSettled(i) == i \in 1..Len(loads) /\ loads' = Remove(loads, i)

\* C15: loading is true whenever a loadData call is still in flight, also
\* when a tab switch or a save started a load before an earlier one finished;
\* and a load's result is stored only in the state of the tab it was started
\* for.
C15_LoadingWhilePending ==
    /\ [](loads # <<>> => loading)
    /\ [][\A i \in 1..MaxLoads :
            LoadSettled(i) =>
                /\ loads[i].tab = "request-types" => policies' = policies
                /\ loads[i].tab = "policies" => requestTypes' = requestTypes]_vars

SaveSettled == Len(saves') = Len(saves) - 1

\* The settled save started a reload.
Reloaded == Len(loads') = Len(loads) + 1

\* C16: handleSaveRequestType calls updateRequestType(id, data) exactly when the
\* edited request type has an id and createRequestType(data) otherwise; a save
\* that succeeds closes the modal, resets editingRequestType to null and
\* reloads the list; one that fails leaves the modal and editingRequestType
\* (with the edits) as they are.
C16_SaveOutcome ==
    [][/\ SaveIssued =>
            LET e == editingRequestType[1]
                call == saves'[Len(saves')]
            IN  /\ call.id = e.id
                /\ call.op = IF e.id # Null THEN "updateRequestType"
                                            ELSE "createRequestType"
                /\ UNCHANGED <<showModal, editingRequestType, requestTypes>>
       /\ SaveSettled =>
            IF Reloaded
            THEN /\ showModal' = FALSE
                 /\ editingRequestType' = <<>>
                 /\ loads'[Len(loads')].tab = "request-types"
                 /\ loading'
            ELSE UNCHANGED <<showModal, editingRequestType, requestTypes,
                             loads, loading>>]_vars

\* an update of a listed request type, one task removed, is in flight
C16_Witness ==
    /\ saves # <<>>
    /\ saves[1].op = "updateRequestType"
    /\ ModalShown
    /\ editingRequestType[1].id = saves[1].id
    /\ Len(editingRequestType[1].tasks) = 1
    /\ Len(requestTypes[saves[1].id].tasks) = 2

-----------------------------------------------------------------------------
(* Properties of the chat client                                            *)

Settled(k) == requests[k].outcome # "pending"
Succeeded == { k \in 1..Len(requests) : requests[k].outcome = "ok" }

\* needs_input of the most recent successful response before request k
LastNeedsInput(k) ==
    LET S == { j \in Succeeded : j < k }
    IN  IF S = {} THEN FALSE ELSE requests[Max(S)].needs_input

UserTexts ==
    LET u == SelectSeq(messages, LAMBDA m : m.sender = "user")
    IN  [i \in 1..Len(u) |-> u[i].text]

\* C1: a message goes through sendInput(session id, text) exactly when the most
\* recent successful response had needs_input = true and a session id is held;
\* otherwise it goes through sendQuery.
C1_Routing ==
    \A k \in 1..Len(requests) :
        LET r == requests[k] IN
        IF LastNeedsInput(k) /\ r.held # Null
        THEN /\ r.op = "sendInput"
             /\ r.session_id = r.held
             /\ k <= Len(UserTexts) /\ r.text = UserTexts[k]
        ELSE r.op = "sendQuery"

C1_Witness ==
    /\ Len(requests) = 2
    /\ requests[1].outcome = "ok" /\ requests[1].needs_input
    /\ requests[2].op = "sendInput" /\ requests[2].session_id = requests[1].reply_sid

\* C2: at most one request of the chat client is in flight at any time,
\* whatever the user does and whenever a quick-action timeout fires.
C2_OneInFlight ==
    /\ Len(inflight) <= 1
    /\ Cardinality({ k \in 1..Len(requests) : ~Settled(k) }) <= 1

\* a quick-action timeout is still armed while a request is pending
C2_Witness ==
    /\ Len(inflight) = 1
    /\ timers # <<>>
    /\ Len(requests) = 2

\* C3: the first request carries no session id, the client adopts the id of the
\* first successful response, every later request carries that id, and once set
\* the client's sessionId never changes and the store opens no further session.
C3_OneSession ==
    /\ [](/\ (requests # <<>> => requests[1].session_id = Null)
          /\ IF Succeeded = {}
             THEN /\ sessionId = Null
                  /\ \A k \in 1..Len(requests) : requests[k].session_id = Null
             ELSE LET f == Min(Succeeded) IN
                  /\ sessionId = requests[f].reply_sid
                  /\ sessionId # Null
                  /\ \A k \in 1..Len(requests) :
                        requests[k].session_id = IF k <= f THEN Null ELSE sessionId)
    /\ [][sessionId # Null => sessionId' = sessionId /\ nextSid' = nextSid]_vars

\* a request after a successful sendInput still carries the adopted id
C3_Witness ==
    /\ Len(requests) = 2
    /\ requests[1].outcome = "ok"
    /\ requests[2].op = "sendInput" /\ requests[2].outcome = "ok"
    /\ sessionId = requests[1].reply_sid

IsAppend(old, new) == Len(new) = Len(old) + 1 /\ SubSeq(new, 1, Len(old)) = old

\* C6: the message history is append-only; a send appends the user message when
\* the request is issued, its completion appends exactly one system message, so
\* after the greeting the history alternates user, system, user, system.
C6_AppendOnly ==
    /\ [](/\ messages[1] = Greet
          /\ \A i \in 1..Len(messages) :
                messages[i].sender = IF i % 2 = 1 THEN "system" ELSE "user"
          /\ Len(UserTexts) = Len(requests)
          /\ \A k \in 1..Len(requests) :
                /\ messages[2 * k].text = requests[k].text
                /\ Settled(k) <=> 2 * k + 1 <= Len(messages))
    /\ [][messages' = messages \/ IsAppend(messages, messages')]_vars

C6_Witness ==
    /\ Len(messages) = 5
    /\ messages[3].isError
    /\ ~messages[5].isError

ErrorStep ==
    \E k \in 1..Len(requests) :
        requests[k].outcome = "pending" /\ requests'[k].outcome = "error"

\* C7: a failed request appends one apology message, leaves sessionId and
\* needsInput as they were and resets isLoading, so the retry is routed to the
\* same operation with the same session id as the failed attempt.
C7_RetryAfterError ==
    /\ [](\A k \in 1..Len(requests) :
            requests[k].outcome = "error"
                => IF k < Len(requests)
                   THEN /\ requests[k + 1].op = requests[k].op
                        /\ requests[k + 1].session_id = requests[k].session_id
                   ELSE /\ SendOp(sessionId, needsInput) = requests[k].op
                        /\ sessionId = requests[k].session_id
                        /\ ~isLoading
                        /\ messages[Len(messages)] = ErrorMessage)
    /\ [][ErrorStep => /\ messages' = Append(messages, ErrorMessage)
                       /\ sessionId' = sessionId
                       /\ needsInput' = needsInput
                       /\ isLoading' = FALSE]_vars

\* a sendInput failed and the same text is in the field again, ready to be sent
C7_Witness ==
    /\ Len(requests) = 2
    /\ requests[1].outcome = "ok"
    /\ requests[2].op = "sendInput" /\ requests[2].outcome = "error"
    /\ inputValue = requests[2].text /\ ~SendDisabled
    /\ needsInput

TimerFired == timers # <<>> /\ timers' = Tail(timers)

RequestIssued == Len(requests') = Len(requests) + 1

\* C12: handleSendMessage issues no request when the input is empty or only
\* white space and then leaves messages, sessionId, needsInput and isLoading as
\* they were; every request issued carries the input text exactly as typed.
C12_NonEmptyInput ==
    /\ [](\A k \in 1..Len(requests) :
            /\ Truthy(Trim(requests[k].text))
            /\ requests[k].text = messages[2 * k].text)
    /\ [][(TimerFired /\ ~Truthy(Trim(inputValue)) =>
                UNCHANGED <<messages, sessionId, needsInput, isLoading,
                            requests, inflight>>)
           /\ (RequestIssued =>
                /\ Truthy(Trim(inputValue))
                /\ requests'[Len(requests')].text = inputValue
                /\ inflight'[Len(inflight')].text = inputValue)]_vars

\* a text typed with trailing white space was sent, and a quick-action timeout
\* is about to submit a field the user has blanked
C12_Witness ==
    /\ Len(requests) = 1
    /\ requests[1].text = <<"yes", Blank>> /\ requests[1].outcome = "ok"
    /\ timers # <<>>
    /\ inputValue = <<Blank>>
    /\ ~isLoading

\* C14: each quick-action click made while no request is pending results in
\* exactly one message whose text is that action's query: the message the
\* click's timeout submits has that text, and when the timeout submits nothing
\* a message with that text has been sent before it fired.
C14_OneMessagePerClick ==
    [][TimerFired =>
        LET q == Head(timers).query IN
        IF RequestIssued
        THEN requests'[Len(requests')].text = q
        ELSE \E j \in 1..Len(requests) : requests[j].text = q]_vars

SessionNotFound(k) ==
    requests[k].outcome = "error" /\ requests[k].response = "SessionNotFound"

\* C11: a request rejected with SessionNotFound is surfaced as a message, and
\* the user can start over: by the end of a run of MaxTurns messages, some
\* message sent after the failure carried no session id.
C11_StartOver ==
    \A k \in 1..Len(requests) :
        SessionNotFound(k) =>
            /\ messages[2 * k + 1] = ErrorMessage
            /\ k < Len(requests) /\ Len(requests) = MaxTurns =>
                    \E j \in (k + 1)..Len(requests) : requests[j].session_id = Null

-----------------------------------------------------------------------------
(* Properties of the task executor                                          *)

Suspended(s) ==
    LET tasks == TasksOf(s.request_type) IN
    /\ s.current_task_index < Len(tasks)
    /\ tasks[s.current_task_index + 1].task_type = "customer_input"
    /\ tasks[s.current_task_index + 1].field \notin DOMAIN s.collected_inputs

\* C8: within one workflow the tasks complete strictly in execution_order, none
\* skipped or repeated: current_task_index never decreases, points at the
\* suspending task on a suspension, and counts the tasks completed.
C8_InOrder ==
    /\ [](\A sid \in DOMAIN sessions :
            LET s == sessions[sid] IN
            /\ s.executed = [i \in 1..s.current_task_index |-> i]
            /\ s.current_task_index <= Len(TasksOf(s.request_type))
            /\ s.status = "awaiting_input" => Suspended(s)
            /\ s.status = "completed" =>
                    s.current_task_index = Len(TasksOf(s.request_type)))
    /\ [][\A sid \in DOMAIN sessions \cap DOMAIN sessions' :
            sessions'[sid].workflow = sessions[sid].workflow
                => /\ sessions'[sid].current_task_index >= sessions[sid].current_task_index
                   /\ IsPrefix(sessions[sid].executed, sessions'[sid].executed)]_vars

\* Cancel Trip ran to completion over two suspensions / one with the PNR extracted
C8_Witness ==
    \E sid \in DOMAIN sessions :
        /\ sessions[sid].request_type = "CancelTrip"
        /\ sessions[sid].status = "completed"
        /\ sessions[sid].executed = <<1, 2, 3, 4, 5>>

\* C10: a conversation that only addresses the single-response request type
\* never suspends: every response has needs_input false, no session is awaiting
\* input, needsInput stays false and no sendInput is issued.
C10_SingleResponse ==
    (\A k \in 1..Len(requests) : Resolve(requests[k].text) = "Greeting")
        => /\ needsInput = FALSE
           /\ \A k \in 1..Len(requests) :
                /\ requests[k].op = "sendQuery"
                /\ requests[k].outcome = "ok" =>
                        ~requests[k].needs_input /\ requests[k].response = "final"
           /\ \A sid \in DOMAIN sessions :
                /\ sessions[sid].status = "completed"
                /\ sessions[sid].executed = <<1>>

C10_Witness ==
    /\ Len(requests) = 2
    /\ \A k \in 1..2 : requests[k].text = <<"hello">> /\ requests[k].outcome = "ok"
    /\ sessionId # Null

-----------------------------------------------------------------------------
(* The Cancel Trip scenario                                                 *)

Said(texts) ==
    /\ Len(requests) >= Len(texts)
    /\ \A k \in 1..Len(texts) : requests[k].text = texts[k]

\* C9: the messages "cancel", "ABC123", "yes" are issued as sendQuery(text, null),
\* sendInput(sid, "ABC123"), sendInput(sid, "yes") with one session id; the first
\* two responses ask for input, the third is terminal, and a following message
\* is sent as a query.
C9_CancelTrip ==
    LET sid == requests[1].reply_sid IN
    /\ Said(<< <<"cancel">> >>) =>
            /\ requests[1].op = "sendQuery" /\ requests[1].session_id = Null
            /\ Settled(1) => requests[1].outcome = "ok" /\ requests[1].needs_input
    /\ Said(<< <<"cancel">>, <<"ABC123">> >>) =>
            /\ requests[2].op = "sendInput" /\ requests[2].session_id = sid
            /\ Settled(2) => requests[2].outcome = "ok" /\ requests[2].needs_input
    /\ Said(<< <<"cancel">>, <<"ABC123">>, <<"yes">> >>) =>
            /\ requests[3].op = "sendInput" /\ requests[3].session_id = sid
            /\ Settled(3) =>
                    /\ requests[3].outcome = "ok" /\ ~requests[3].needs_input
                    /\ requests[3].response = "final"
            /\ Settled(3) /\ Len(requests) = 3 =>
                    /\ ~needsInput
                    /\ sessions[sid].status = "completed"
                    /\ sessions[sid].collected_inputs["pnr"] = <<"ABC123">>
                    /\ sessions[sid].collected_inputs["confirm"] = <<"yes">>
            /\ Len(requests) >= 4 =>
                    requests[4].op = "sendQuery" /\ requests[4].session_id = sid

C9_Witness ==
    /\ Said(<< <<"cancel">>, <<"ABC123">>, <<"yes">>, <<"cancel">> >>)
    /\ requests[4].outcome = "ok"

=============================================================================
